---- MODULE Spec2Model ----
(***************************************************************************)
(* whisperTranscriber: the inference channel (services/whisperService),    *)
(* its background worker, and the App handlers that drive them.            *)
(*                                                                         *)
(* The main thread and the worker exchange messages over two FIFO queues   *)
(* (postMessage in each direction).  A promise is a record whose st field  *)
(* is "pending", "resolved" or "rejected"; settling a promise that is not  *)
(* pending changes nothing, as in JavaScript.  The continuation of an      *)
(* `await` runs as a microtask of the task that settled the promise, so it *)
(* is part of the action that settles it.                                  *)
(*                                                                         *)
(* The fields sn, by, at and load of a promise, and the variables sent,    *)
(* lastSn, workersCreated, loadsSent and readyRecv are history: the        *)
(* program does not read them; they record which request a response was    *)
(* produced for, the channel's state when a call was made, and how often   *)
(* an operation happened.                                                  *)
(***************************************************************************)
EXTENDS Integers, Sequences, FiniteSets, TLC

\* ------------------------------------------------------------ bounds
MaxInitCalls == 2
MaxTranscribeCalls == 2
MaxProgress == 1

\* ------------------------------------------------------------ constants of the code
NOT_INITIALIZED == "Whisper model not initialized. Call initWhisper() first."
WORKER_NOT_INITIALIZED == "Worker not initialized"
WORKER_SCRIPT_FAILED == "Worker script failed to load. Check your connection or Content Security Policy."
TRANSCRIBER_NOT_INITIALIZED == "Transcriber not initialized"
PROCESS_FAILED == "Failed to process audio data. Please ensure your microphone is working."

\* what the speech pipeline can produce or throw (inputs of the model)
Texts == {"", " ", "hello"}
\* for the callers that do not look into the text, one text stands for all
AnyText == {"hello"}
LoadErrors == {"model files missing", "no available backend found"}
TranscribeErrors == {"unexpected input shape"}
ScriptErrors == {"failed to fetch dynamically imported module"}

VARIABLES
  worker,            \* module variable `worker`: 0 is null, n > 0 the n-th Worker created
  onProgressCallback,\* module variable: 0 is null, k the callback passed by initWhisper call k
  owner,             \* the initWhisper call whose resolve/reject worker.onmessage/onerror close over
  initP,             \* the promises returned by the initWhisper calls, in call order
  trP,               \* the promises returned by the transcribeWithWhisper calls, in call order
  listeners,         \* handleMessage listeners registered on the worker (by transcribe call)
  toWorker,          \* messages posted to the worker, not yet handled by it
  toMain,            \* events from the worker (messages, error event), not yet dispatched
  wstatus,           \* worker script: "none", "starting", "running", "failed"
  transcriber,       \* worker variable `transcriber`: FALSE is null
  loading,           \* 'load' requests (sn) whose handler is suspended in the worker
  running,           \* 'transcribe' requests (sn) whose handler awaits transcriber(...)
  progressPosted,    \* number of 'progress' messages posted so far
  sent,              \* history: number of messages posted to the worker
  lastSn,            \* history: the largest request number a response was received for
  workersCreated,    \* history: number of `new Worker(...)`
  loadsSent,         \* history: number of 'load' messages posted
  readyRecv,         \* history: number of 'ready' messages dispatched on the main thread
  app,               \* the App component: its React state and the awaits of its handlers
  loadLog,           \* history: the messages the worker posted in answer to 'load' requests
  cbLog,             \* history: the invocations of onProgress callbacks, by initWhisper call
  cond               \* a signal before and after normalizeAudio, on its own

svars == <<worker, onProgressCallback, owner, initP, trP, listeners, toWorker, toMain,
           wstatus, transcriber, loading, running, progressPosted,
           sent, lastSn, workersCreated, loadsSent, readyRecv>>

vars == <<svars, app, loadLog, cbLog, cond>>

\* ------------------------------------------------------------ promises
Pending(p) == p.st = "pending"

\* Settle without the settled-once rule: a later reject replaces a resolution
SettleOverwrites(p, st, val, by) == [p EXCEPT !.st = st, !.val = val, !.by = by]

\* resolve(value) / reject(error) of a promise: a no-op once it is settled
Settle(p, st, val, by) ==
  IF Pending(p) THEN [p EXCEPT !.st = st, !.val = val, !.by = by] ELSE p

\* the promise of an initWhisper call.  by: the request number of the response that
\* settled it (0: none); at: the channel's state at the call; load: the request
\* number of the 'load' the call posted (0: none)
NewInitPromise(st, caller, at, load) ==
  [st |-> st, val |-> "", by |-> 0, caller |-> caller, at |-> at, load |-> load]

\* the promise of a transcribeWithWhisper call; "decoding" is the await of
\* decodeAndResample.  sn: the request number of its 'transcribe' (0: not posted);
\* ctx: the AudioContext decodeAndResample creates on entry ("none": the call never
\* got there); failed: decoding or rendering failed; audio: the conditioned signal
\* handed to the worker ("none": nothing was)
NewTrPromise(st, val, at) ==
  [st |-> st, val |-> val, by |-> 0, sn |-> 0, at |-> at,
   ctx |-> IF st = "decoding" THEN "open" ELSE "none", failed |-> FALSE, audio |-> "none"]

\* ------------------------------------------------------------ the App (App.tsx)
LOAD_PREFIX == "Failed to load Whisper model: "
UNKNOWN_ERROR == "Unknown error"
NO_SPEECH == "No speech detected. Ensure microphone volume is up."
PROCESS_FALLBACK == "Failed to process audio."
MIC_FAILED == "Could not access microphone. Please check permissions."

\* errorMsg is a sequence of strings, read as their concatenation; <<>> is null
NoError == <<>>

\* err.message || fallback
OrElse(msg, fallback) == IF msg = "" THEN fallback ELSE msg

\* the trim() missing from the test
IsBlankEmptyOnly(text) == text = ""

\* !transcribedText || !transcribedText.trim()
IsBlank(text) == text \in {"", " "}

\* AiMode: Verbatim, and Polished standing for the modes that refine
VERBATIM == "Verbatim"
AiModes == {VERBATIM, "Polished"}

\* what generateContent answers with (response.text), and what it fails with
RefinedTexts == {"", "Hello."}
API_KEY_MISSING == "API Key is missing. Refinement unavailable."
RefineErrors == {API_KEY_MISSING, "request failed"}

\* recMode, recAutoCopy: activeMode and settings.autoCopy as the handleStopRecording
\* closure that startRecording installs sees them; refining: the transcript handed
\* to the refineText call being awaited ("": none); clipboard: the texts passed to
\* navigator.clipboard.writeText.  refineCalls (number of refineText calls) and
\* refine (how the session's refineText call ended) are history
AppInit ==
  [mounted |-> FALSE, isModelReady |-> FALSE, errorMsg |-> NoError,
   isRecording |-> FALSE, isProcessing |-> FALSE, currentText |-> "",
   history |-> <<>>, modelProgress |-> 0, loadAwait |-> 0, stopAwait |-> 0,
   activeMode |-> VERBATIM, autoCopy |-> FALSE, recMode |-> VERBATIM,
   recAutoCopy |-> FALSE, refining |-> "", refineCalls |-> 0, refine |-> "none",
   clipboard |-> <<>>]

\* loadModel after `await initWhisper(...)`: the try's rest, or the catch
AfterLoad(a, ps) ==
  IF a.loadAwait = 0 THEN a
  ELSE LET p == ps[a.loadAwait] IN
       IF p.st = "resolved"
         THEN [a EXCEPT !.isModelReady = TRUE, !.modelProgress = 0, !.loadAwait = 0]
       ELSE IF p.st = "rejected"
         THEN [a EXCEPT !.errorMsg = <<LOAD_PREFIX, OrElse(p.val, UNKNOWN_ERROR)>>,
                        !.loadAwait = 0]
       ELSE a

\* the outer catch and the finally of handleStopRecording
SessionFails(a, msg) ==
  [a EXCEPT !.errorMsg = <<OrElse(msg, PROCESS_FALLBACK)>>,
            !.isProcessing = FALSE, !.stopAwait = 0, !.refining = ""]

\* the end of handleStopRecording's try, and the finally: show the text, put the
\* session in front of the history, copy the text if settings.autoCopy
SessionSucceeds(a, text) ==
  [a EXCEPT !.currentText = text,
            !.history = <<[originalText |-> text, processedText |-> text,
                           mode |-> a.recMode]>> \o a.history,
            !.clipboard = IF a.recAutoCopy THEN Append(a.clipboard, text) ELSE a.clipboard,
            !.isProcessing = FALSE, !.stopAwait = 0, !.refining = ""]

\* handleStopRecording after `await transcribeWithWhisper(audioBlob)`
AfterStop(a, ts) ==
  IF a.stopAwait = 0 THEN a
  ELSE LET p == ts[a.stopAwait] IN
       IF p.st = "resolved"
         THEN IF IsBlank(p.val)
                THEN SessionFails(a, NO_SPEECH)
              ELSE IF a.recMode # VERBATIM
                THEN [a EXCEPT !.refining = p.val, !.refineCalls = @ + 1,
                               !.stopAwait = 0]
              ELSE SessionSucceeds(a, p.val)
       ELSE IF p.st = "rejected"
         THEN SessionFails(a, p.val)
       ELSE a

\* refineText(text, instruction), given what generateContent did
RefineText(text, threw, answer) ==
  IF threw THEN [threw |-> TRUE, val |-> answer]
           ELSE [threw |-> FALSE, val |-> OrElse(answer, text)]

\* AfterRefine without the inner try/catch: the error reaches the outer catch
AfterRefineRethrows(a, r) ==
  IF r.threw THEN SessionFails([a EXCEPT !.refine = "failed"], r.val)
             ELSE SessionSucceeds([a EXCEPT !.refine = "ok"], r.val)

\* handleStopRecording after `await refineText(...)`: the inner catch keeps the
\* local transcript
AfterRefine(a, r) ==
  IF r.threw THEN SessionSucceeds([a EXCEPT !.refine = "failed"], a.refining)
             ELSE SessionSucceeds([a EXCEPT !.refine = "ok"], r.val)

\* the microtasks that follow a task: the reactions of the promises it settled,
\* the load's first (worker.onmessage runs before the listeners)
Continue(a, ps, ts) == AfterStop(AfterLoad(a, ps), ts)

\* the onProgress callback loadModel passes to initWhisper
AppOnProgress(a, data) == [a EXCEPT !.modelProgress = data]

\* ------------------------------------------------------------ Init
\* a signal normalizeAudio has not been given
CondIdle == [pc |-> "idle", data |-> <<>>, out |-> <<>>, scaled |-> FALSE]

\* the module's state after it is loaded, and the App's before it mounts
Idle ==
  /\ worker = 0
  /\ onProgressCallback = 0
  /\ owner = 0
  /\ initP = <<>>
  /\ trP = <<>>
  /\ listeners = {}
  /\ toWorker = <<>>
  /\ toMain = <<>>
  /\ wstatus = "none"
  /\ transcriber = FALSE
  /\ loading = {}
  /\ running = {}
  /\ progressPosted = 0
  /\ sent = 0
  /\ lastSn = 0
  /\ workersCreated = 0
  /\ loadsSent = 0
  /\ readyRecv = 0
  /\ app = AppInit
  /\ loadLog = <<>>
  /\ cbLog = <<>>

Init ==
  /\ Idle
  /\ cond = CondIdle

\* ------------------------------------------------------------ whisperService, main thread
\* WorkerExists with the guard missing: every call spawns a worker
WorkerExistsNever == FALSE

\* `if (worker)` at the top of initWhisper
WorkerExists == worker # 0

\* InferenceWorkerState: the code keeps no such field; it is what `worker` and the
\* promise of the initWhisper call that created the worker say
ChannelState ==
  IF worker = 0 THEN "UNLOADED"
  ELSE IF initP[owner].st = "pending" THEN "LOADING"
  ELSE IF initP[owner].st = "resolved" THEN "READY"
  ELSE "ERROR"

\* initWhisper(onProgress), called by `caller`; hasCb: an onProgress was passed
InitWhisper(caller, hasCb) ==
  LET k == Len(initP) + 1 IN
  IF WorkerExists
    THEN /\ initP' = Append(initP, NewInitPromise("resolved", caller, ChannelState, 0))
         /\ UNCHANGED <<worker, onProgressCallback, owner, trP, listeners, toWorker, toMain,
                        wstatus, transcriber, loading, running, progressPosted,
                        sent, lastSn, workersCreated, loadsSent, readyRecv>>
    ELSE /\ initP' = Append(initP, NewInitPromise("pending", caller, ChannelState, sent + 1))
         /\ onProgressCallback' = IF hasCb THEN k ELSE onProgressCallback
         /\ worker' = workersCreated + 1
         /\ workersCreated' = workersCreated + 1
         /\ owner' = k
         \* a new Worker: its script is not evaluated yet, its queues are empty
         /\ wstatus' = "starting"
         /\ transcriber' = FALSE
         /\ loading' = {}
         /\ running' = {}
         /\ listeners' = {}
         /\ toMain' = <<>>
         /\ toWorker' = <<[type |-> "load", sn |-> sent + 1]>>
         /\ sent' = sent + 1
         /\ loadsSent' = loadsSent + 1
         /\ UNCHANGED <<trP, progressPosted, lastSn, readyRecv>>

\* `if (!worker) throw` at the top of transcribeWithWhisper
NotInitialized == worker = 0

\* transcribeWithWhisper(audioBlob) up to its first await
TranscribeWithWhisper ==
  /\ trP' = Append(trP, IF NotInitialized
                          THEN NewTrPromise("rejected", NOT_INITIALIZED, ChannelState)
                          ELSE NewTrPromise("decoding", "", ChannelState))
  /\ UNCHANGED <<worker, onProgressCallback, owner, initP, listeners, toWorker, toMain,
                 wstatus, transcriber, loading, running, progressPosted,
                 sent, lastSn, workersCreated, loadsSent, readyRecv>>

\* the awaits of decodeAndResample that can fail: decodeAudioData, startRendering
DecodeFailures == {"decode", "render"}

\* decodeAndResample whose catch returns nothing instead of throwing
DecodeAndResampleSwallows(outcome) ==
  [threw |-> FALSE, val |-> IF outcome = "ok" THEN "signal" ELSE "none"]

\* the try/catch of decodeAndResample: the conditioned signal, or the catch's error
DecodeAndResample(outcome) ==
  IF outcome = "ok" THEN [threw |-> FALSE, val |-> "signal"]
                    ELSE [threw |-> TRUE, val |-> PROCESS_FAILED]

\* audioCtx.close() placed after the return value instead of in `finally`
CloseCtxOnReturn(p, threw) == IF threw THEN p ELSE [p EXCEPT !.ctx = "closed"]

\* `finally { audioCtx.close(); }` of decodeAndResample
CloseCtx(p, threw) == [p EXCEPT !.ctx = "closed"]

\* decodeAndResample ended with this outcome; transcribeWithWhisper goes on after
\* its await: it rejects with the error thrown, or runs the `new Promise` executor
AfterDecode(k, outcome) ==
  LET r == DecodeAndResample(outcome)
      p == CloseCtx([trP[k] EXCEPT !.failed = outcome # "ok"], outcome # "ok")
  IN  /\ IF r.threw
           THEN /\ trP' = [trP EXCEPT ![k] = [p EXCEPT !.st = "rejected", !.val = r.val]]
                /\ UNCHANGED <<listeners, toWorker, sent>>
           ELSE IF worker = 0
             THEN /\ trP' = [trP EXCEPT ![k] = [p EXCEPT !.st = "rejected",
                                                         !.val = WORKER_NOT_INITIALIZED]]
                  /\ UNCHANGED <<listeners, toWorker, sent>>
             ELSE /\ listeners' = listeners \cup {k}
                  /\ toWorker' = Append(toWorker, [type |-> "transcribe", sn |-> sent + 1])
                  /\ sent' = sent + 1
                  /\ trP' = [trP EXCEPT ![k] = [p EXCEPT !.st = "pending", !.sn = sent + 1,
                                                         !.audio = r.val]]
      /\ app' = Continue(app, initP, trP')
      /\ UNCHANGED <<worker, onProgressCallback, owner, initP, toMain,
                     wstatus, transcriber, loading, running, progressPosted,
                     lastSn, workersCreated, loadsSent, readyRecv>>
      /\ UNCHANGED <<cond, loadLog, cbLog>>

\* decodeAndResample returned: the `new Promise` executor of transcribeWithWhisper
DecodeOk(k) ==
  /\ k \in 1..Len(trP)
  /\ trP[k].st = "decoding"
  /\ AfterDecode(k, "ok")

\* decodeAndResample threw: transcribeWithWhisper rejects with its error
DecodeFail(k, where) ==
  /\ k \in 1..Len(trP)
  /\ trP[k].st = "decoding"
  /\ where \in DecodeFailures
  /\ AfterDecode(k, where)

\* OnMessage with the 'error' branch missing
OnMessageDropsError(p, m) ==
  IF m.type = "ready" THEN Settle(p, "resolved", "", m.sn) ELSE p

\* OnError with the reject missing
OnErrorIgnored(p) == p

\* worker.onmessage set by initWhisper, on the promise of the call that set it
OnMessage(p, m) ==
  IF m.type = "ready" THEN Settle(p, "resolved", "", m.sn)
  ELSE IF m.type = "error" THEN Settle(p, "rejected", m.data, m.sn)
  ELSE p

\* worker.onerror set by initWhisper: the event's own message is not used
OnError(p) == Settle(p, "rejected", WORKER_SCRIPT_FAILED, 0)

\* handleMessage of a transcribeWithWhisper call, on that call's promise
HandleMessage(p, m) ==
  IF m.type = "result" THEN Settle(p, "resolved", m.data, m.sn)
  ELSE IF m.type = "error" THEN Settle(p, "rejected", m.data, m.sn)
  ELSE p

\* handleMessage that stays registered after an 'error'
RemovesOnResult(m) == m.type = "result"

\* handleMessage removes itself on 'result' and on 'error'
Removes(m) == m.type \in {"result", "error"}

\* the main thread dispatches the next event of the worker
MainDispatch ==
  /\ toMain # <<>>
  /\ LET m == Head(toMain) IN
     /\ toMain' = Tail(toMain)
     /\ IF m.type = "errorevent"
          THEN /\ initP' = [initP EXCEPT ![owner] = OnError(@)]
               /\ app' = Continue(app, initP', trP)
               /\ UNCHANGED <<trP, listeners, lastSn, readyRecv>>
          ELSE /\ initP' = [initP EXCEPT ![owner] = OnMessage(@, m)]
               /\ trP' = [k \in 1..Len(trP) |->
                            IF k \in listeners THEN HandleMessage(trP[k], m) ELSE trP[k]]
               /\ listeners' = IF Removes(m) THEN {} ELSE listeners
               /\ lastSn' = IF m.sn > lastSn THEN m.sn ELSE lastSn
               /\ readyRecv' = IF m.type = "ready" THEN readyRecv + 1 ELSE readyRecv
               /\ app' = Continue(
                    IF /\ m.type = "progress"
                       /\ onProgressCallback # 0
                       /\ initP[onProgressCallback].caller = "app"
                      THEN AppOnProgress(app, m.data) ELSE app,
                    initP', trP')
  /\ UNCHANGED <<worker, onProgressCallback, owner, toWorker,
                 wstatus, transcriber, loading, running, progressPosted,
                 sent, workersCreated, loadsSent>>
  /\ cbLog' = IF Head(toMain).type = "progress" /\ onProgressCallback # 0
                 THEN Append(cbLog, [call |-> onProgressCallback, data |-> Head(toMain).data])
                 ELSE cbLog
  /\ UNCHANGED <<cond, loadLog>>

\* ------------------------------------------------------------ the worker (createWorkerCode)
Post(type, data, sn) == toMain' = Append(toMain, [type |-> type, data |-> data, sn |-> sn])

\* the load branch kept running after its terminal message
LoadGoesOn(sn) == loading

\* the load branch of self.onmessage returns after 'ready', its catch after 'error'
LoadEnds(sn) == loading \ {sn}

\* the worker's module script is evaluated
WorkerStartOk ==
  /\ wstatus = "starting"
  /\ wstatus' = "running"
  /\ UNCHANGED <<worker, onProgressCallback, owner, initP, trP, listeners, toWorker, toMain,
                 transcriber, loading, running, progressPosted,
                 sent, lastSn, workersCreated, loadsSent, readyRecv, app>>
  /\ UNCHANGED <<cond, loadLog, cbLog>>

\* the worker's module script fails (import error): an error event, no handler installed
WorkerStartFail(e) ==
  /\ wstatus = "starting"
  /\ wstatus' = "failed"
  /\ Post("errorevent", e, 0)
  /\ UNCHANGED <<worker, onProgressCallback, owner, initP, trP, listeners, toWorker,
                 transcriber, loading, running, progressPosted,
                 sent, lastSn, workersCreated, loadsSent, readyRecv, app>>
  /\ UNCHANGED <<cond, loadLog, cbLog>>

\* self.onmessage up to its first await
WorkerOnMessage ==
  /\ wstatus = "running"
  /\ toWorker # <<>>
  /\ LET m == Head(toWorker) IN
     /\ toWorker' = Tail(toWorker)
     /\ IF m.type = "load"
          THEN /\ loading' = loading \cup {m.sn}
               /\ UNCHANGED <<running, toMain>>
          ELSE IF ~transcriber
            THEN /\ Post("error", TRANSCRIBER_NOT_INITIALIZED, m.sn)
                 /\ UNCHANGED <<running, loading>>
            ELSE /\ running' = running \cup {m.sn}
                 /\ UNCHANGED <<loading, toMain>>
  /\ UNCHANGED <<worker, onProgressCallback, owner, initP, trP, listeners,
                 wstatus, transcriber, progressPosted,
                 sent, lastSn, workersCreated, loadsSent, readyRecv, app>>
  /\ UNCHANGED <<cond, loadLog, cbLog>>

\* progress_callback of pipeline(...)
WorkerProgress(sn) ==
  /\ sn \in loading
  /\ ~transcriber
  /\ progressPosted < MaxProgress
  /\ progressPosted' = progressPosted + 1
  /\ Post("progress", progressPosted + 1, sn)
  /\ UNCHANGED <<worker, onProgressCallback, owner, initP, trP, listeners, toWorker,
                 wstatus, transcriber, loading, running,
                 sent, lastSn, workersCreated, loadsSent, readyRecv, app>>
  /\ loadLog' = Append(loadLog, [sn |-> sn, type |-> "progress"])
  /\ UNCHANGED <<cond, cbLog>>

\* the load branch completes: transcriber is set, 'ready' is posted
WorkerLoadReady(sn) ==
  /\ sn \in loading
  /\ loading' = LoadEnds(sn)
  /\ transcriber' = TRUE
  /\ Post("ready", "", sn)
  /\ UNCHANGED <<worker, onProgressCallback, owner, initP, trP, listeners, toWorker,
                 wstatus, running, progressPosted,
                 sent, lastSn, workersCreated, loadsSent, readyRecv, app>>
  /\ loadLog' = Append(loadLog, [sn |-> sn, type |-> "ready"])
  /\ UNCHANGED <<cond, cbLog>>

\* the load branch throws (requestAdapter or pipeline): the catch posts 'error'
WorkerLoadError(sn, e) ==
  /\ sn \in loading
  /\ ~transcriber
  /\ loading' = LoadEnds(sn)
  /\ Post("error", e, sn)
  /\ UNCHANGED <<worker, onProgressCallback, owner, initP, trP, listeners, toWorker,
                 wstatus, transcriber, running, progressPosted,
                 sent, lastSn, workersCreated, loadsSent, readyRecv, app>>
  /\ loadLog' = Append(loadLog, [sn |-> sn, type |-> "error"])
  /\ UNCHANGED <<cond, cbLog>>

\* `await transcriber(...)` returns: 'result' with the extracted text
WorkerTranscribeResult(sn, text) ==
  /\ sn \in running
  /\ running' = running \ {sn}
  /\ Post("result", text, sn)
  /\ UNCHANGED <<worker, onProgressCallback, owner, initP, trP, listeners, toWorker,
                 wstatus, transcriber, loading, progressPosted,
                 sent, lastSn, workersCreated, loadsSent, readyRecv, app>>
  /\ UNCHANGED <<cond, loadLog, cbLog>>

\* WorkerTranscribeError whose catch posts nothing
WorkerTranscribeErrorSilent(sn, e) ==
  /\ sn \in running
  /\ running' = running \ {sn}
  /\ UNCHANGED <<worker, onProgressCallback, owner, initP, trP, listeners, toWorker, toMain,
                 wstatus, transcriber, loading, progressPosted,
                 sent, lastSn, workersCreated, loadsSent, readyRecv, app>>
  /\ UNCHANGED <<cond, loadLog, cbLog>>

\* `await transcriber(...)` throws: the catch posts 'error'
WorkerTranscribeError(sn, e) ==
  /\ sn \in running
  /\ running' = running \ {sn}
  /\ Post("error", e, sn)
  /\ UNCHANGED <<worker, onProgressCallback, owner, initP, trP, listeners, toWorker,
                 wstatus, transcriber, loading, progressPosted,
                 sent, lastSn, workersCreated, loadsSent, readyRecv, app>>
  /\ UNCHANGED <<cond, loadLog, cbLog>>

\* a step of the worker; texts: what the transcriber can return
WorkerStep(texts) ==
  \/ WorkerStartOk
  \/ \E e \in ScriptErrors : WorkerStartFail(e)
  \/ WorkerOnMessage
  \/ \E sn \in loading : WorkerProgress(sn)
  \/ \E sn \in loading : WorkerLoadReady(sn)
  \/ \E sn \in loading, e \in LoadErrors : WorkerLoadError(sn, e)
  \/ \E sn \in running, t \in texts : WorkerTranscribeResult(sn, t)
  \/ \E sn \in running, e \in TranscribeErrors : WorkerTranscribeError(sn, e)

\* ------------------------------------------------------------ callers of the service
\* some caller calls initWhisper
ClientInit(hasCb) ==
  /\ Len(initP) < MaxInitCalls
  /\ InitWhisper("client", hasCb)
  /\ UNCHANGED app
  /\ UNCHANGED <<cond, loadLog, cbLog>>

\* some caller calls transcribeWithWhisper
ClientTranscribe ==
  /\ Len(trP) < MaxTranscribeCalls
  /\ TranscribeWithWhisper
  /\ UNCHANGED app
  /\ UNCHANGED <<cond, loadLog, cbLog>>

\* some caller calls initWhisper: "watcher" with an onProgress, "client" without
CallerInit(hasCb) ==
  /\ Len(initP) < MaxInitCalls
  /\ InitWhisper(IF hasCb THEN "watcher" ELSE "client", hasCb)
  /\ UNCHANGED app
  /\ UNCHANGED <<cond, loadLog, cbLog>>

\* a step of the worker while it is only asked to load
WorkerLoadStep ==
  \/ WorkerStartOk
  \/ \E e \in ScriptErrors : WorkerStartFail(e)
  \/ WorkerOnMessage
  \/ \E sn \in loading : WorkerProgress(sn)
  \/ \E sn \in loading : WorkerLoadReady(sn)
  \/ \E sn \in loading, e \in LoadErrors : WorkerLoadError(sn, e)

\* the callers of initWhisper alone, each known to pass an onProgress or not
LoadNext ==
  \/ \E hasCb \in BOOLEAN : CallerInit(hasCb)
  \/ MainDispatch
  \/ WorkerLoadStep

LoadSpec == Init /\ [][LoadNext]_vars

Next ==
  \/ \E hasCb \in BOOLEAN : ClientInit(hasCb)
  \/ ClientTranscribe
  \/ \E k \in 1..Len(trP) : DecodeOk(k)
  \/ \E k \in 1..Len(trP), where \in DecodeFailures : DecodeFail(k, where)
  \/ MainDispatch
  \/ WorkerStep(AnyText)

Spec == Init /\ [][Next]_vars

\* ------------------------------------------------------------ the App's handlers
\* loadModel(): setErrorMsg(null), setIsModelReady(false), await initWhisper(callback)
LoadModel ==
  /\ Len(initP) < MaxInitCalls
  /\ InitWhisper("app", TRUE)
  /\ app' = Continue([app EXCEPT !.mounted = TRUE, !.errorMsg = NoError,
                                 !.isModelReady = FALSE, !.loadAwait = Len(initP) + 1],
                     initP', trP')
  /\ UNCHANGED <<cond, loadLog, cbLog>>

\* the mount effect calls loadModel
Mount ==
  /\ ~app.mounted
  /\ LoadModel

\* the Retry button: rendered when idle, the model is not ready and an error is shown
RetryShown ==
  /\ app.mounted
  /\ ~app.isRecording
  /\ ~app.isProcessing
  /\ ~app.isModelReady
  /\ app.errorMsg # NoError

Retry ==
  /\ RetryShown
  /\ LoadModel

\* the action button is enabled: disabled={!isModelReady || isProcessing}
ButtonEnabled == app.mounted /\ app.isModelReady /\ ~app.isProcessing

\* startRecording(); granted: getUserMedia resolved with a stream
StartRecording(granted) ==
  /\ ButtonEnabled
  /\ ~app.isRecording
  /\ Len(trP) < MaxTranscribeCalls
  /\ app' = IF granted
              THEN [app EXCEPT !.isRecording = TRUE, !.errorMsg = NoError, !.currentText = "",
                               !.recMode = app.activeMode, !.recAutoCopy = app.autoCopy]
              ELSE [app EXCEPT !.errorMsg = <<MIC_FAILED>>]
  /\ UNCHANGED svars
  /\ UNCHANGED <<cond, loadLog, cbLog>>

\* stopRecording(), then the recorder's stop event: handleStopRecording up to its await
StopRecording ==
  /\ ButtonEnabled
  /\ app.isRecording
  /\ TranscribeWithWhisper
  /\ app' = Continue([app EXCEPT !.isRecording = FALSE, !.isProcessing = TRUE,
                                 !.stopAwait = Len(trP) + 1, !.refine = "none"],
                     initP', trP')
  /\ UNCHANGED <<cond, loadLog, cbLog>>

\* the refineText call awaited by handleStopRecording returned
RefineReturns(answer) ==
  /\ app.refining # ""
  /\ answer \in RefinedTexts
  /\ app' = AfterRefine(app, RefineText(app.refining, FALSE, answer))
  /\ UNCHANGED svars
  /\ UNCHANGED <<cond, loadLog, cbLog>>

\* the refineText call awaited by handleStopRecording threw
RefineThrows(e) ==
  /\ app.refining # ""
  /\ e \in RefineErrors
  /\ app' = AfterRefine(app, RefineText(app.refining, TRUE, e))
  /\ UNCHANGED svars
  /\ UNCHANGED <<cond, loadLog, cbLog>>

\* a button of the mode selector: setActiveMode(mode)
SetActiveMode(mode) ==
  /\ app.mounted
  /\ mode \in AiModes \ {app.activeMode}
  /\ app' = [app EXCEPT !.activeMode = mode]
  /\ UNCHANGED svars
  /\ UNCHANGED <<cond, loadLog, cbLog>>

\* the auto-copy checkbox of the settings view
SetAutoCopy(checked) ==
  /\ app.mounted
  /\ checked # app.autoCopy
  /\ app' = [app EXCEPT !.autoCopy = checked]
  /\ UNCHANGED svars
  /\ UNCHANGED <<cond, loadLog, cbLog>>

AppNext ==
  \/ Mount
  \/ Retry
  \/ \E granted \in BOOLEAN : StartRecording(granted)
  \/ StopRecording
  \/ \E answer \in RefinedTexts : RefineReturns(answer)
  \/ \E e \in RefineErrors : RefineThrows(e)
  \/ \E mode \in AiModes : SetActiveMode(mode)
  \/ \E checked \in BOOLEAN : SetAutoCopy(checked)
  \/ \E k \in 1..Len(trP) : DecodeOk(k)
  \/ \E k \in 1..Len(trP), where \in DecodeFailures : DecodeFail(k, where)
  \/ MainDispatch
  \/ WorkerStep(Texts)

AppSpec == Init /\ [][AppNext]_vars

\* ------------------------------------------------------------ normalizeAudio
\* A sample is an integer counting 1/10000 of full scale, so that 0.001 and 0.95
\* are whole numbers; a store into a Float32Array rounds to the nearest sample.
MaxLen == 3
FULL_SCALE == 10000
SILENCE == 10
TARGET == 9500

\* samples below, at and above the silence threshold, beyond full scale, either sign
Samples == {-20000, -9500, -9, 0, 3, 10, 4000, 10000}

Signals == UNION {[1..n -> Samples] : n \in 0..MaxLen}

\* Math.abs
Abs(x) == IF x < 0 THEN -x ELSE x

\* the peak taken without Math.abs
PeakSigned(data) ==
  LET A == {data[i] : i \in 1..Len(data)} \cup {0}
  IN  CHOOSE m \in A : \A a \in A : a <= m

\* `max` after the loop of normalizeAudio, which starts from 0
Peak(data) ==
  LET A == {Abs(data[i]) : i \in 1..Len(data)} \cup {0}
  IN  CHOOSE m \in A : \A a \in A : a <= m

\* n / d rounded to the nearest sample (d > 0)
Round(n, d) == (2 * n + d) \div (2 * d)

\* normalizeAudio that only leaves an all-zero signal alone
NormalizeAudioZeroOnly(data) ==
  LET max == Peak(data)
  IN  IF max = 0
        THEN [out |-> data, scaled |-> FALSE]
        ELSE [out |-> [i \in 1..Len(data) |-> Round(data[i] * TARGET, max)],
              scaled |-> TRUE]

\* normalizeAudio(data): the array itself when it is silent, else a new array of
\* data[i] * (0.95 / max)
NormalizeAudio(data) ==
  LET max == Peak(data)
  IN  IF max < SILENCE
        THEN [out |-> data, scaled |-> FALSE]
        ELSE [out |-> [i \in 1..Len(data) |-> Round(data[i] * TARGET, max)],
              scaled |-> TRUE]

NormInit ==
  /\ Idle
  /\ cond \in {[pc |-> "input", data |-> d, out |-> <<>>, scaled |-> FALSE] : d \in Signals}

\* normalizeAudio is applied to the signal
Normalize ==
  /\ cond.pc = "input"
  /\ cond' = [cond EXCEPT !.pc = "normalized",
                          !.out = NormalizeAudio(cond.data).out,
                          !.scaled = NormalizeAudio(cond.data).scaled]
  /\ UNCHANGED <<svars, app, loadLog, cbLog>>

NormNext == Normalize

NormSpec == NormInit /\ [][NormNext]_vars

\* ------------------------------------------------------------ resampling
\* The mono source signal of decodeAndResample and its sample rate, resampled to
\* 16 kHz: by linear interpolation, or (in the version that renders through an
\* OfflineAudioContext) by the platform into a buffer whose length the code sets.
MaxSrcLen == 4
TARGET_RATE == 16000

Rates == {8000, 16000, 32000, 44100, 48000}
SourceSamples == {-4000, 0, 3, 10000}
Sources == UNION {[1..n -> SourceSamples] : n \in 0..MaxSrcLen}

\* newLength with Math.floor in place of Math.round
NewLengthFloor(N, R) == (N * TARGET_RATE) \div R

\* ratio = sampleRate / 16000; newLength = Math.round(sourceData.length / ratio)
NewLength(N, R) == Round(N * TARGET_RATE, R)

\* targetLength = Math.ceil(audioBuffer.duration * 16000), duration being N / R
TargetLength(N, R) == (N * TARGET_RATE + R - 1) \div R

\* the resampling loop with the weights of the two samples swapped, and run at
\* every rate
ResampleSwapped(source, R) ==
  LET N == Len(source)
      index(i) == (i * R) \div TARGET_RATE
      rem(i) == (i * R) % TARGET_RATE
  IN  [out |-> [j \in 1..NewLength(N, R) |->
                  IF index(j - 1) >= N - 1
                    THEN source[N]
                    ELSE Round(source[index(j - 1) + 1] * rem(j - 1)
                               + source[index(j - 1) + 2] * (TARGET_RATE - rem(j - 1)),
                               TARGET_RATE)],
       reads |-> [j \in 1..NewLength(N, R) |->
                    IF index(j - 1) >= N - 1 THEN {N - 1}
                                             ELSE {index(j - 1), index(j - 1) + 1}]]

\* step 2 of decodeAndResample: the source itself at 16 kHz, else for output i
\* (from 0) position = i * ratio, index = floor(position), fraction = position -
\* index, and the last source sample when index >= N - 1.  reads: the source
\* indices (from 0) read for each output sample
Resample(source, R) ==
  LET N == Len(source)
      index(i) == (i * R) \div TARGET_RATE
      rem(i) == (i * R) % TARGET_RATE
  IN  IF R = TARGET_RATE
        THEN [out |-> source, reads |-> [j \in 1..N |-> {}]]
        ELSE [out |-> [j \in 1..NewLength(N, R) |->
                         IF index(j - 1) >= N - 1
                           THEN source[N]
                           ELSE Round(source[index(j - 1) + 1] * (TARGET_RATE - rem(j - 1))
                                      + source[index(j - 1) + 2] * rem(j - 1),
                                      TARGET_RATE)],
              reads |-> [j \in 1..NewLength(N, R) |->
                           IF index(j - 1) >= N - 1 THEN {N - 1}
                                                    ELSE {index(j - 1), index(j - 1) + 1}]]

ResampleInit ==
  /\ Idle
  /\ cond \in {[pc |-> "source", data |-> d, rate |-> r, out |-> <<>>, reads |-> <<>>,
                length |-> 0] : d \in Sources, r \in Rates}

\* the linear-interpolation version resamples the source
ResampleLinear ==
  /\ cond.pc = "source"
  /\ cond' = [cond EXCEPT !.pc = "resampled",
                          !.out = Resample(cond.data, cond.rate).out,
                          !.reads = Resample(cond.data, cond.rate).reads,
                          !.length = Len(Resample(cond.data, cond.rate).out)]
  /\ UNCHANGED <<svars, app, loadLog, cbLog>>

\* the rendering version creates its OfflineAudioContext(1, targetLength, 16000)
ResampleRender ==
  /\ cond.pc = "source"
  /\ cond' = [cond EXCEPT !.pc = "rendered",
                          !.length = TargetLength(Len(cond.data), cond.rate)]
  /\ UNCHANGED <<svars, app, loadLog, cbLog>>

ResampleNext ==
  \/ ResampleLinear
  \/ ResampleRender

ResampleSpec == ResampleInit /\ [][ResampleNext]_vars

\* ------------------------------------------------------------ properties
InitCalls == 1..Len(initP)
TrCalls == 1..Len(trP)

\* the main thread dispatches a worker event of this type while the load is pending
DispatchWhileLoading(type) ==
  /\ worker # 0
  /\ Pending(initP[owner])
  /\ toMain # <<>>
  /\ Head(toMain).type = type
  /\ toMain' = Tail(toMain)

\* C1: a transcribeWithWhisper call made before the load has completed (no worker
\* yet, or the load still pending) is rejected with the not-initialized error and
\* never posts a 'transcribe' message.
C1_RejectsBeforeReady ==
  \A k \in TrCalls :
    trP[k].at \in {"UNLOADED", "LOADING"} =>
      /\ trP[k].st = "rejected"
      /\ trP[k].val = NOT_INITIALIZED
      /\ trP[k].sn = 0

\* C2: at most one transcribeWithWhisper call has its 'transcribe' request posted
\* and its promise unsettled.
C2_SingleInFlight ==
  Cardinality({k \in TrCalls : trP[k].st = "pending"}) <= 1

\* C3: initWhisper calls made while no load has finished create one worker and post
\* one 'load', and none of their promises is resolved before 'ready' has arrived.
C3_ConcurrentLoadsShareReady ==
  /\ workersCreated <= 1
  /\ loadsSent <= 1
  /\ \A k \in InitCalls :
       (initP[k].at \in {"UNLOADED", "LOADING"} /\ initP[k].st = "resolved")
         => readyRecv > 0

\* C4: an initWhisper call made after a failed load posts a new 'load', and resolves
\* only by the 'ready' that answers that 'load'.
C4_RetryReloads ==
  \A k \in InitCalls :
    initP[k].at = "ERROR" =>
      /\ initP[k].load # 0
      /\ initP[k].st = "resolved" => initP[k].by = initP[k].load

\* C5: when an 'error' message of the worker is dispatched while the load is
\* pending, the load's promise is rejected with exactly that message, the channel
\* is in ERROR, and the App is not ready and shows the message.
C5_LoadErrorRejects ==
  [][DispatchWhileLoading("error") =>
       /\ initP'[owner].st = "rejected"
       /\ initP'[owner].val = Head(toMain).data
       /\ ChannelState' = "ERROR"
       /\ ~app'.isModelReady
       /\ app'.errorMsg = <<LOAD_PREFIX, Head(toMain).data>>]_vars

C5_Witness ==
  /\ worker # 0
  /\ initP[owner].st = "rejected"
  /\ initP[owner].val \in LoadErrors
  /\ initP[owner].by = initP[owner].load
  /\ ~app.isModelReady
  /\ app.errorMsg = <<LOAD_PREFIX, initP[owner].val>>

\* C6: under the App, isModelReady holds only if a 'ready' message was received,
\* and a 'transcribe' message is posted only after one was.
C6_TranscribeOnlyAfterReady ==
  /\ app.isModelReady => readyRecv > 0
  /\ sent > loadsSent => readyRecv > 0

\* C7: a transcribeWithWhisper promise that posted its request is settled by the
\* response the worker produced for that request, not by another request's.
C7_OwnResponse ==
  \A k \in TrCalls :
    (trP[k].sn # 0 /\ trP[k].st \in {"resolved", "rejected"}) => trP[k].by = trP[k].sn

\* C8: responses are received in the order of their requests: no message is
\* dispatched for a request older than one a response was already received for.
C8_ResponsesInRequestOrder ==
  [][(toMain # <<>> /\ toMain' = Tail(toMain) /\ Head(toMain).type # "errorevent")
       => Head(toMain).sn >= lastSn]_vars

\* C9: an initWhisper call made when the channel is READY resolves and posts no
\* 'load'; over all calls at most one worker is created and one 'load' posted.
C9_InitIdempotent ==
  /\ workersCreated <= 1
  /\ loadsSent <= 1
  /\ \A k \in InitCalls :
       initP[k].at = "READY" => (initP[k].st = "resolved" /\ initP[k].load = 0)

C9_Witness ==
  /\ workersCreated = 1
  /\ \E k \in InitCalls : initP[k].at = "READY" /\ initP[k].st = "resolved"

\* C10: when the worker's error event is dispatched while the load is pending, the
\* load's promise is rejected, the App shows that rejection's message unchanged and
\* is not ready, and the rejected promise is never resolved later.
C10_StartFailureRejects ==
  [][/\ DispatchWhileLoading("errorevent") =>
          /\ initP'[owner].st = "rejected"
          /\ initP'[owner].val = WORKER_SCRIPT_FAILED
          /\ ~app'.isModelReady
          /\ app'.loadAwait = 0
          /\ app'.errorMsg = <<LOAD_PREFIX, initP'[owner].val>>
     /\ \A k \in InitCalls : initP[k].st = "rejected" => initP'[k] = initP[k]]_vars

C10_Witness ==
  /\ wstatus = "failed"
  /\ initP[owner].st = "rejected"
  /\ initP[owner].val = WORKER_SCRIPT_FAILED
  /\ ~app.isModelReady
  /\ app.errorMsg = <<LOAD_PREFIX, WORKER_SCRIPT_FAILED>>

\* the main thread dispatches a worker message of this type
Dispatch(type) ==
  /\ toMain # <<>>
  /\ Head(toMain).type = type
  /\ toMain' = Tail(toMain)

\* C11: when the 'error' with which the worker answered a call's 'transcribe' is
\* dispatched, that call's promise is rejected with the worker's message (and so
\* is not resolved with text).
C11_ErrorRejectsOwnCall ==
  [][Dispatch("error") =>
       \A k \in TrCalls :
         trP[k].sn = Head(toMain).sn =>
           (trP'[k].st = "rejected" /\ trP'[k].val = Head(toMain).data)]_vars

\* a worker 'error' is dispatched while the channel is READY and a transcription
\* is outstanding
ErrorDuringTranscription ==
  /\ Dispatch("error")
  /\ ChannelState = "READY"
  /\ listeners # {}

\* C12 (as claimed): such an 'error' moves the channel from READY to ERROR.
C12_ErrorLeavesReady ==
  [][ErrorDuringTranscription => ChannelState' = "ERROR"]_vars

\* C12 (amended): such an 'error' rejects the outstanding transcriptions and leaves
\* the channel READY with its worker, so a new transcription is accepted without a
\* fresh load.
C12_ErrorKeepsReady ==
  [][ErrorDuringTranscription =>
       /\ ChannelState' = "READY"
       /\ worker' = worker
       /\ \A k \in listeners : trP'[k].st = "rejected"]_vars

C12_Witness ==
  /\ ChannelState = "READY"
  /\ \E k, j \in TrCalls :
       /\ k < j
       /\ trP[k].st = "rejected"
       /\ trP[k].val \in TranscribeErrors
       /\ trP[k].by = trP[k].sn
       /\ trP[j].at = "READY"
       /\ trP[j].sn > trP[k].sn
       /\ trP[j].st = "resolved"
       /\ trP[j].by = trP[j].sn

\* C13: a call whose decoding or rendering failed is rejected with the error
\* decodeAndResample throws; no conditioned signal exists for it and no
\* 'transcribe' was posted for it.
C13_DecodeFailureRejects ==
  \A k \in TrCalls :
    trP[k].failed =>
      /\ trP[k].st = "rejected"
      /\ trP[k].val = PROCESS_FAILED
      /\ trP[k].audio = "none"
      /\ trP[k].sn = 0
      /\ k \notin listeners

C13_Witness ==
  \E k \in TrCalls : trP[k].failed /\ trP[k].st = "rejected" /\ worker # 0

\* C14: once a transcribeWithWhisper call is past decodeAndResample (it returned or
\* threw), the AudioContext it created is not open.
C14_ContextsClosed ==
  \A k \in TrCalls : trP[k].st # "decoding" => trP[k].ctx # "open"

C14_Witness ==
  \E k, j \in TrCalls :
    /\ trP[k].failed /\ trP[k].ctx = "closed"
    /\ ~trP[j].failed /\ trP[j].ctx = "closed"

\* the transcription handleStopRecording awaits resolves with an empty or
\* whitespace-only transcript
BlankTranscript ==
  /\ app.stopAwait # 0
  /\ trP[app.stopAwait].st = "pending"
  /\ trP'[app.stopAwait].st = "resolved"
  /\ trP'[app.stopAwait].val \in {"", " "}

\* C15: on an empty or whitespace-only transcript handleStopRecording shows the
\* 'No speech detected' error and ends the session without presenting anything:
\* currentText and the history stay as they were, refineText is not called and
\* nothing is copied.
C15_BlankNotPresented ==
  [][BlankTranscript =>
       /\ app'.errorMsg = <<NO_SPEECH>>
       /\ ~app'.isProcessing
       /\ app'.currentText = app.currentText
       /\ app'.history = app.history
       /\ app'.refineCalls = app.refineCalls
       /\ app'.refining = ""
       /\ app'.clipboard = app.clipboard]_vars

C15_Witness ==
  /\ app.errorMsg = <<NO_SPEECH>>
  /\ app.recMode # VERBATIM
  /\ app.recAutoCopy
  /\ \E k \in TrCalls : trP[k].st = "resolved" /\ trP[k].val = " "

\* the refineText call handleStopRecording awaits fails
RefineFailed ==
  /\ app.refining # ""
  /\ app'.refining = ""
  /\ app'.refine = "failed"

\* C16: when refineText fails the session still succeeds: the text shown and the
\* history entry put in front are the local transcript, untouched, and no error
\* message is shown.
C16_RefineFailureFallsBack ==
  [][RefineFailed =>
       /\ ~app'.isProcessing
       /\ app'.errorMsg = NoError
       /\ app'.currentText = app.refining
       /\ Len(app'.history) = Len(app.history) + 1
       /\ app'.history[1].originalText = app.refining
       /\ app'.history[1].processedText = app.refining
       /\ app'.history[1].mode # VERBATIM]_vars

C16_Witness ==
  /\ app.refine = "failed"
  /\ ~app.isProcessing
  /\ app.history # <<>>
  /\ app.currentText = "hello"

\* the event loop runs the tasks queued for the main thread, the worker runs, and
\* the platform's decoding and the refinement request come to an end; the user's
\* actions are under no obligation
AppFairSpec ==
  /\ AppSpec
  /\ WF_vars(MainDispatch)
  /\ WF_vars(WorkerStep(Texts))
  /\ WF_vars(\E k \in 1..Len(trP) :
               DecodeOk(k) \/ \E where \in DecodeFailures : DecodeFail(k, where))
  /\ WF_vars(\/ \E answer \in RefinedTexts : RefineReturns(answer)
             \/ \E e \in RefineErrors : RefineThrows(e))

\* C17: the App is never stuck processing: whenever isProcessing is true it
\* eventually returns to false.
C17_ProcessingEnds == app.isProcessing ~> ~app.isProcessing

\* C18: normalizeAudio of a signal whose peak is at least 0.001 returns samples
\* that all lie in [-1, 1] and whose peak is 0.95.
C18_NormalizedPeak ==
  (cond.pc = "normalized" /\ Peak(cond.data) >= SILENCE) =>
    /\ Len(cond.out) = Len(cond.data)
    /\ \A i \in 1..Len(cond.out) : -FULL_SCALE <= cond.out[i] /\ cond.out[i] <= FULL_SCALE
    /\ Peak(cond.out) = TARGET

C18_Witness ==
  /\ cond.pc = "normalized"
  /\ cond.data = <<3, -20000, 4000>>
  /\ cond.out = <<1, -9500, 1900>>

\* C19: normalizeAudio of a signal whose peak is below 0.001 (all-zero and empty
\* signals included) returns it unchanged, with no scaling.
C19_SilenceUnchanged ==
  (cond.pc = "normalized" /\ Peak(cond.data) < SILENCE) =>
    (cond.out = cond.data /\ ~cond.scaled)

C19_Witness ==
  /\ cond.pc = "normalized"
  /\ cond.data = <<3, -9, 0>>
  /\ cond.out = cond.data

\* the 'load' requests posted, and the types of the messages the worker posted in
\* answer to one of them, in order
LoadSns == {initP[k].load : k \in InitCalls} \ {0}
Answers(sn) == SelectSeq(loadLog, LAMBDA e : e.sn = sn)
Received(sn) == \A i \in 1..Len(toWorker) : toWorker[i].sn # sn

\* C20: the messages the worker posts in answer to a 'load' are 'progress'
\* messages followed by one 'ready' or 'error': nothing follows the terminal
\* message, and a load branch that has ended has posted one.
C20_LoadAnswers ==
  \A sn \in LoadSns :
    LET L == Answers(sn) IN
      /\ \A i \in 1..Len(L) : L[i].type \in {"ready", "error"} <=> (i = Len(L) /\ sn \notin loading)
      /\ (Received(sn) /\ sn \notin loading) => L # <<>>

C20_Witness ==
  \E sn \in LoadSns :
    /\ Len(Answers(sn)) >= 2
    /\ Answers(sn)[1].type = "progress"
    /\ Answers(sn)[Len(Answers(sn))].type \in {"ready", "error"}

\* the 'transcribe' requests posted; one of them is open while it waits in the
\* worker's queue or its branch of self.onmessage is running
TranscribeSns == {trP[k].sn : k \in TrCalls} \ {0}
OpenIn(sn, queue, branches) ==
  sn \in branches \/ \E i \in 1..Len(queue) : queue[i].sn = sn

\* the worker posts a message in answer to request sn
PostedFor(sn) ==
  /\ Len(toMain') = Len(toMain) + 1
  /\ toMain'[Len(toMain')].sn = sn

\* C21: the worker answers a 'transcribe' with one message, a 'result' or an
\* 'error': the step that ends its branch posts that message, and no other step
\* posts a message for it.
C21_OneAnswer ==
  [][\A sn \in TranscribeSns :
       LET ends == OpenIn(sn, toWorker, running) /\ ~OpenIn(sn, toWorker', running')
       IN  /\ ends => PostedFor(sn)
           /\ PostedFor(sn) =>
                (ends /\ toMain'[Len(toMain')].type \in {"result", "error"})]_vars

C21_Witness ==
  \E k, j \in TrCalls :
    /\ trP[k].st = "rejected"
    /\ trP[k].val = TRANSCRIBER_NOT_INITIALIZED
    /\ trP[k].by = trP[k].sn
    /\ trP[j].st = "resolved"
    /\ trP[j].by = trP[j].sn

\* L is N * 16000 / R rounded to the nearest integer, halves up
IsRounded(L, N, R) ==
  /\ 2 * L * R <= 2 * N * TARGET_RATE + R
  /\ 2 * L * R > 2 * N * TARGET_RATE - R

\* x lies between a and b
Between(x, a, b) == (a <= x /\ x <= b) \/ (b <= x /\ x <= a)

\* every source index read lies in [0, N - 1]
ReadsInRange ==
  \A j \in 1..Len(cond.reads) : cond.reads[j] \subseteq 0..(Len(cond.data) - 1)

Suppliers == {k \in InitCalls : initP[k].caller \in {"watcher", "app"}}
LatestSupplier == CHOOSE k \in Suppliers : \A j \in Suppliers : j <= k

\* C24: every 'progress' message is forwarded, in the order of arrival, to the
\* onProgress of the initWhisper call that passed one: when calls have passed
\* one, the latest of them has its own callback invoked.
C24_ProgressForwarded ==
  [][(Dispatch("progress") /\ Suppliers # {}) =>
       cbLog' = Append(cbLog, [call |-> LatestSupplier, data |-> Head(toMain).data])]_vars

\* C25: a worker 'error' settles only the promise of the request it answers: an
\* initWhisper promise it rejects is that of the 'load' it answers, and a
\* transcribeWithWhisper promise it rejects is that of the 'transcribe' it answers.
C25_ErrorSettlesOwnRequest ==
  [][Dispatch("error") =>
       /\ \A k \in InitCalls :
            (Pending(initP[k]) /\ ~Pending(initP'[k])) => initP[k].load = Head(toMain).sn
       /\ \A k \in TrCalls :
            (Pending(trP[k]) /\ ~Pending(trP'[k])) => trP[k].sn = Head(toMain).sn]_vars

\* the event loop runs the tasks queued for the main thread, the worker runs and
\* the platform's decoding comes to an end; the callers are under no obligation
FairSpec ==
  /\ Spec
  /\ WF_vars(MainDispatch)
  /\ WF_vars(WorkerStep(AnyText))
  /\ WF_vars(\E k \in 1..Len(trP) :
               DecodeOk(k) \/ \E where \in DecodeFailures : DecodeFail(k, where))

\* C26: when the worker's error event is about to be handled by worker.onerror
\* while a transcribeWithWhisper call is outstanding, that call's promise is
\* eventually settled.
C26_OnErrorSettlesTranscribe ==
  \A k \in 1..MaxTranscribeCalls :
    (/\ k \in TrCalls
     /\ Pending(trP[k])
     /\ toMain # <<>>
     /\ Head(toMain).type = "errorevent") ~> (k \in TrCalls /\ ~Pending(trP[k]))

\* C27: the transcribe listeners registered on the worker are those of the
\* transcribeWithWhisper calls that have posted their request and have not settled,
\* so their numbers are equal; when every call has settled none is registered.
C27_ListenersArePendingCalls ==
  /\ listeners = {k \in TrCalls : Pending(trP[k])}
  /\ Cardinality(listeners) = Cardinality({k \in TrCalls : Pending(trP[k])})
  /\ (\A k \in TrCalls : trP[k].st \in {"resolved", "rejected"}) => listeners = {}

\* one call was answered and lost its listener while another is still registered
C27_Witness ==
  \E j, k \in TrCalls :
    /\ trP[j].sn # 0
    /\ trP[j].st \in {"resolved", "rejected"}
    /\ Pending(trP[k])
    /\ listeners = {k}
====
